---------------------------- MODULE Spec2Model ----------------------------
(***************************************************************************)
(* Label-layer pipeline of the NSE proof of replication                    *)
(* (storage-proofs/porep/src/nse/vanilla/labels.rs).                        *)
(*                                                                         *)
(* A buffer is a sequence of chunks as produced by chunks(NODE_SIZE): a    *)
(* full chunk is a node value in 0 .. NodeSpace-1 (the 256-bit node scaled *)
(* to NodeBits bits), and Short stands for a trailing chunk of fewer than  *)
(* NODE_SIZE bytes.  Byte lengths are kept exact (BufLen).                  *)
(***************************************************************************)
EXTENDS Integers, Sequences, FiniteSets, TLC

VARIABLES
    inp,             \* per call: config, mode, window_index, replica_id, data
    pc,              \* per call: where the call stands
    phase,           \* per call: the stage of the layer last computed
    layer_idx,       \* per call: the loop variable layer_index
    previous_layer,  \* per call: the buffer of that name
    current_layer,   \* per call: the buffer of that name
    trees,           \* per call: the trees pushed so far
    result,          \* per call: what the call returned
    enc,             \* per call: the encode call whose output is being decoded
    store,           \* the tree store shared by all calls, by storage key
    bufs,            \* per call: which allocation each buffer name holds
    log,             \* per call: the stages, tree builds, swaps and drops so far
    st,   \* one call of a stage function: its arguments and what it returned
    hp    \* the last two calls of hash_prefix: arguments and results

pipeline == << inp, pc, phase, layer_idx, previous_layer, current_layer, trees,
               result, enc, store, bufs, log >>

vars == << pipeline, st, hp >>

\* ------------------------------------------------------------------ bounds
NodeBits == 4            \* width of a node value in the model (256 in the code)
MaxLeafs == 3            \* largest config.n / NODE_SIZE
MaxExpanderLayers == 2   \* largest config.num_expander_layers
MaxButterflyLayers == 2  \* largest config.num_butterfly_layers

\* --------------------------------------------------------------- constants
NODE_SIZE == 32
MASK_LAYER_INDEX == 1

NodeSpace == 2 ^ NodeBits
\* truncate_hash clears the two top bits of the node
TruncSpace == 2 ^ (NodeBits - 2)
\* the field modulus lies strictly between 2^(bits-2) and 2^(bits-1)
Modulus == TruncSpace + 1
Short == -1

\* ----------------------------------------------------------------- buffers
ChunkLen(c) == IF c = Short THEN NODE_SIZE \div 2 ELSE NODE_SIZE

RECURSIVE BufLen(_)
BufLen(b) == IF b = <<>> THEN 0 ELSE ChunkLen(Head(b)) + BufLen(Tail(b))

Zeros(n) == [i \in 1 .. (n \div NODE_SIZE) |-> 0]

Min(a, b) == IF a < b THEN a ELSE b

\* ------------------------------------------------------------- hash_prefix
to_be_bytes(x) ==
    << (x \div 16777216) % 256, (x \div 65536) % 256, (x \div 256) % 256, x % 256 >>

\* the prefix with node_index and window_index in each other's place
hash_prefix_swapped(layer, node_index, window_index) ==
    to_be_bytes(layer) \o to_be_bytes(window_index) \o to_be_bytes(node_index)
        \o [i \in 1 .. 20 |-> 0]

hash_prefix(layer, node_index, window_index) ==
    to_be_bytes(layer) \o to_be_bytes(node_index) \o to_be_bytes(window_index)
        \o [i \in 1 .. 20 |-> 0]

\* ------------------------------------------------------------------ hashing
\* Sha256 as a deterministic mixing function of the whole input sequence.
RECURSIVE Mix(_, _)
Mix(h, input) ==
    IF input = <<>> THEN h
    ELSE Mix((h * 31 + Head(input) + 7) % 65521, Tail(input))

Sha256Digest(input) == Mix(17, input) % NodeSpace

truncate_hash(node) == node % TruncSpace

\* Domain::try_from_bytes succeeds exactly on a full chunk below the modulus
ValidDomain(c) == c # Short /\ c >= 0 /\ c < Modulus

AllValid(b) == \A i \in 1 .. Len(b) : ValidDomain(b[i])

\* encode::encode and encode::decode: addition and subtraction in the field
encode(key, value) == (key + value) % Modulus
decode(key, value) == (value + Modulus - key) % Modulus

\* ------------------------------------------------------------------ config
num_layers(config) == config.num_expander_layers + config.num_butterfly_layers

num_leafs(config) == config.n \div NODE_SIZE

\* ------------------------------------------------------------------ graphs
\* ExpanderGraph::parents: degree_expander parents, the same for every layer
ExpanderParents(config, node_index) ==
    [j \in 1 .. config.degree_expander |->
        (node_index * 3 + j * j + 1) % num_leafs(config)]

\* ButterflyGraph::parents: degree_butterfly parents, depending on the layer
ButterflyParents(config, node_index, layer_index) ==
    [j \in 1 .. config.degree_butterfly |->
        (node_index + (j - 1) * layer_index + 1) % num_leafs(config)]

\* Itertools::tuples: adjacent pairs, a leftover element is dropped
Tuples(s) == [i \in 1 .. (Len(s) \div 2) |-> << s[2 * i - 1], s[2 * i] >>]

RECURSIVE Flatten(_)
Flatten(ss) == IF ss = <<>> THEN <<>> ELSE Head(ss) \o Flatten(Tail(ss))

\* the parents whose values enter the hash of a butterfly node
ButterflyHashedParents(config, node_index, layer_index) ==
    Flatten(Tuples(ButterflyParents(config, node_index, layer_index)))

\* batch_hash: the digest of prefix, replica id and the parents' values in order
batch_hash(k, degree, preloaded, parents, layer_in) ==
    Sha256Digest(preloaded \o [j \in 1 .. Len(parents) |-> layer_in[parents[j] + 1]])

\* ------------------------------------------------------------------ stages
\* A stage returns [err, out]: err is "none" on Ok, and out is layer_out as the
\* call leaves it.
ConfigError(layer_out) == [err |-> "config", out |-> layer_out]

\* a mask node written without truncate_hash
MaskNodeUntruncated(window_index, replica_id, node_index) ==
    Sha256Digest(hash_prefix(MASK_LAYER_INDEX, node_index, window_index)
                 \o << replica_id >>)

MaskNode(window_index, replica_id, node_index) ==
    truncate_hash(Sha256Digest(
        hash_prefix(MASK_LAYER_INDEX, node_index, window_index) \o << replica_id >>))

mask_layer(config, window_index, replica_id, layer_out) ==
    IF BufLen(layer_out) # config.n THEN ConfigError(layer_out)
    ELSE [err |-> "none",
          out |-> [i \in 1 .. Len(layer_out) |->
                     MaskNode(window_index, replica_id, i - 1)]]

ExpanderNode(config, window_index, replica_id, layer_index, layer_in, node_index) ==
    truncate_hash(batch_hash(config.k, config.degree_expander,
        hash_prefix(layer_index, node_index, window_index) \o << replica_id >>,
        ExpanderParents(config, node_index), layer_in))

\* the expander range with its lower bound off by one
ExpanderIndexFromOne(config, layer_index) ==
    layer_index >= 1 /\ layer_index <= config.num_expander_layers

ExpanderIndexOk(config, layer_index) ==
    layer_index > 1 /\ layer_index <= config.num_expander_layers

expander_layer(config, window_index, replica_id, layer_index, layer_in, layer_out) ==
    IF BufLen(layer_in) # BufLen(layer_out) THEN ConfigError(layer_out)
    ELSE IF BufLen(layer_out) # config.n THEN ConfigError(layer_out)
    ELSE IF ~ExpanderIndexOk(config, layer_index) THEN ConfigError(layer_out)
    ELSE [err |-> "none",
          out |-> [i \in 1 .. Len(layer_out) |->
                     ExpanderNode(config, window_index, replica_id, layer_index,
                                  layer_in, i - 1)]]

\* the hasher's input for a butterfly node: prefix, replica id, parent pairs
ButterflyPreimage(config, window_index, replica_id, layer_index, layer_in, node_index) ==
    hash_prefix(layer_index, node_index, window_index) \o << replica_id >>
      \o [j \in 1 .. Len(ButterflyHashedParents(config, node_index, layer_index)) |->
            layer_in[ButterflyHashedParents(config, node_index, layer_index)[j] + 1]]

ButterflyNode(config, window_index, replica_id, layer_index, layer_in, node_index) ==
    truncate_hash(Sha256Digest(
        ButterflyPreimage(config, window_index, replica_id, layer_index, layer_in,
                          node_index)))

ButterflyIndexOk(config, layer_index) ==
    /\ layer_index > config.num_expander_layers
    /\ layer_index < config.num_expander_layers + config.num_butterfly_layers

butterfly_layer(config, window_index, replica_id, layer_index, layer_in, layer_out) ==
    IF BufLen(layer_in) # BufLen(layer_out) THEN ConfigError(layer_out)
    ELSE IF BufLen(layer_out) # config.n THEN ConfigError(layer_out)
    ELSE IF ~ButterflyIndexOk(config, layer_index) THEN ConfigError(layer_out)
    ELSE [err |-> "none",
          out |-> [i \in 1 .. Len(layer_out) |->
                     ButterflyNode(config, window_index, replica_id, layer_index,
                                   layer_in, i - 1)]]

FinalIndexOk(config, layer_index) ==
    layer_index = config.num_expander_layers + config.num_butterfly_layers

\* op called with key and data node in each other's place
ApplyOpSwapped(mode, key, value) ==
    IF mode = "encode" THEN encode(value, key) ELSE decode(value, key)

ApplyOp(mode, key, value) ==
    IF mode = "encode" THEN encode(key, value) ELSE decode(key, value)

\* the node loop of butterfly_encode_decode_layer from the i-th zipped pair on:
\* a failed conversion returns at once and keeps the nodes already written
\* (keys: the key of every node visited, in order)
RECURSIVE EncodeDecodeLoop(_, _, _, _, _, _, _, _, _, _)
EncodeDecodeLoop(config, window_index, replica_id, layer_index, layer_in, data, mode, i, out, keys) ==
    IF i > Min(Len(out), Len(data)) THEN [err |-> "none", out |-> out, keys |-> keys]
    ELSE LET key == ButterflyNode(config, window_index, replica_id, layer_index,
                                  layer_in, i - 1)
         IN IF ~ValidDomain(key) \/ ~ValidDomain(data[i])
            THEN [err |-> "conversion", out |-> out, keys |-> Append(keys, key)]
            ELSE EncodeDecodeLoop(config, window_index, replica_id, layer_index,
                                  layer_in, data, mode, i + 1,
                                  [out EXCEPT ![i] = ApplyOp(mode, key, data[i])],
                                  Append(keys, key))

butterfly_encode_decode_layer(config, window_index, replica_id, layer_index, layer_in, data, layer_out, mode) ==
    IF BufLen(layer_in) # BufLen(layer_out) THEN ConfigError(layer_out)
    ELSE IF BufLen(layer_out) # config.n THEN ConfigError(layer_out)
    ELSE IF ~FinalIndexOk(config, layer_index) THEN ConfigError(layer_out)
    ELSE EncodeDecodeLoop(config, window_index, replica_id, layer_index, layer_in,
                          data, mode, 1, layer_out, << >>)

butterfly_encode_layer(config, window_index, replica_id, layer_index, layer_in, data, layer_out) ==
    butterfly_encode_decode_layer(config, window_index, replica_id, layer_index,
                                  layer_in, data, layer_out, "encode")

\* butterfly_decode_layer handing encode::encode to the shared function
butterfly_decode_layer_encoding(config, window_index, replica_id, layer_index, layer_in, data, layer_out) ==
    butterfly_encode_decode_layer(config, window_index, replica_id, layer_index,
                                  layer_in, data, layer_out, "encode")

\* butterfly_decode_layer with the two input slices in each other's place
butterfly_decode_layer_data_first(config, window_index, replica_id, layer_index, layer_in, data, layer_out) ==
    butterfly_encode_decode_layer(config, window_index, replica_id, layer_index,
                                  data, layer_in, layer_out, "decode")

butterfly_decode_layer(config, window_index, replica_id, layer_index, layer_in, data, layer_out) ==
    butterfly_encode_decode_layer(config, window_index, replica_id, layer_index,
                                  layer_in, data, layer_out, "decode")

\* ------------------------------------------------------------------ inputs
Fill(m, v) == [i \in 1 .. m |-> v]

\* a buffer of the given number of chunks, one shorter, one longer
Around(leafs, v) ==
    { Fill(m, v) : m \in { x \in {leafs - 1, leafs, leafs + 1} : x >= 0 } }

\* data of the right length made of valid domain elements
ValidData(leafs) == [1 .. leafs -> {0, Modulus - 1}]

\* data of the right length with one node that is no domain element
InvalidData(leafs) ==
    { [i \in 1 .. leafs |-> IF i = j THEN bad ELSE 1] :
        j \in 1 .. leafs, bad \in {Modulus, NodeSpace - 1} }

\* data of a wrong length: a node short, a node long, a ragged last chunk
WrongLenData(leafs) ==
    { Fill(leafs - 1, 1), Fill(leafs + 1, 1), Fill(leafs - 1, 1) \o << Short >> }

DataInputs(leafs) == ValidData(leafs) \cup InvalidData(leafs) \cup WrongLenData(leafs)

WindowIndices == {0, 3}
ReplicaIds == {2}

Configs ==
    [ k : {1},
      n : { NODE_SIZE * l : l \in 1 .. MaxLeafs },
      degree_expander : {2},
      degree_butterfly : {2, 3},
      num_expander_layers : 0 .. MaxExpanderLayers,
      num_butterfly_layers : 0 .. MaxButterflyLayers ]

\* ------------------------------------------------- calls of single stages
StageArgs ==
    UNION { [ config : {c},
              window_index : WindowIndices,
              replica_id : ReplicaIds,
              layer_index : 0 .. (MaxExpanderLayers + MaxButterflyLayers + 1),
              layer_in : Around(num_leafs(c), 1),
              data : DataInputs(num_leafs(c)),
              layer_out : Around(num_leafs(c), NodeSpace - 1) ] : c \in Configs }

NoRet == [err |-> "none", out |-> <<>>]

StageInit ==
    st \in [ fn : {"none"}, args : StageArgs, ret : {NoRet}, back : {NoRet} ]

Called(fn, ret) == st' = [st EXCEPT !.fn = fn, !.ret = ret]

CallMaskLayer ==
    /\ st.fn = "none"
    /\ Called("mask_layer",
              mask_layer(st.args.config, st.args.window_index, st.args.replica_id,
                         st.args.layer_out))
    /\ UNCHANGED << pipeline, hp >>

CallExpanderLayer ==
    /\ st.fn = "none"
    /\ Called("expander_layer",
              expander_layer(st.args.config, st.args.window_index,
                             st.args.replica_id, st.args.layer_index,
                             st.args.layer_in, st.args.layer_out))
    /\ UNCHANGED << pipeline, hp >>

CallButterflyLayer ==
    /\ st.fn = "none"
    /\ Called("butterfly_layer",
              butterfly_layer(st.args.config, st.args.window_index,
                              st.args.replica_id, st.args.layer_index,
                              st.args.layer_in, st.args.layer_out))
    /\ UNCHANGED << pipeline, hp >>

CallButterflyEncodeLayer ==
    /\ st.fn = "none"
    /\ Called("butterfly_encode_layer",
              butterfly_encode_layer(st.args.config, st.args.window_index,
                                     st.args.replica_id, st.args.layer_index,
                                     st.args.layer_in, st.args.data,
                                     st.args.layer_out))
    /\ UNCHANGED << pipeline, hp >>

CallButterflyDecodeLayer ==
    /\ st.fn = "none"
    /\ Called("butterfly_decode_layer",
              butterfly_decode_layer(st.args.config, st.args.window_index,
                                     st.args.replica_id, st.args.layer_index,
                                     st.args.layer_in, st.args.data,
                                     st.args.layer_out))
    /\ UNCHANGED << pipeline, hp >>

\* tests::test_butterfly_encode_decode_layer: decode the encoded layer with
\* the same arguments into a fresh buffer of config.n bytes
CallDecodeBack ==
    /\ st.fn = "butterfly_encode_layer"
    /\ st.ret.err = "none"
    /\ st' = [st EXCEPT
                !.fn = "encode_then_decode",
                !.back = butterfly_decode_layer(
                            st.args.config, st.args.window_index,
                            st.args.replica_id, st.args.layer_index,
                            st.args.layer_in, st.ret.out, Zeros(st.args.config.n))]
    /\ UNCHANGED << pipeline, hp >>

StageNext ==
    \/ CallMaskLayer
    \/ CallExpanderLayer
    \/ CallButterflyLayer
    \/ CallButterflyEncodeLayer
    \/ CallButterflyDecodeLayer
    \/ CallDecodeBack

\* ---------------------------------------------------- calls of hash_prefix
U32Samples == {0, 1, 2, 3, 16909060, 2147483647}

PrefixArgs == U32Samples \X U32Samples \X U32Samples

NoPrefixCall == [args |-> << 0, 0, 0 >>, prefix |-> hash_prefix(0, 0, 0)]

PrefixInit == hp = [last |-> NoPrefixCall, prev |-> NoPrefixCall]

CallHashPrefix ==
    /\ \E a \in PrefixArgs :
          hp' = [last |-> [args |-> a, prefix |-> hash_prefix(a[1], a[2], a[3])],
                 prev |-> hp.last]
    /\ UNCHANGED << pipeline, st >>

StageIdle == st = [fn |-> "idle", args |-> << >>, ret |-> NoRet, back |-> NoRet]

\* ----------------------------------------------- encode_with_trees, decode
Calls == {"a", "b", "c"}

Layers == 0 .. (MaxExpanderLayers + MaxButterflyLayers + 1)

\* a storage key that leaves the window index out
StoreKeyByLayer(layer_index, window_index) == << layer_index, 0 >>

\* CacheKey::label_layer_with_window
StoreKey(layer_index, window_index) == << layer_index, window_index >>

StoreKeys == Layers \X WindowIndices

\* the root of the tree over the given leaves
MerkleRoot(leaves) == Mix(23, leaves) % 251

NoResult == [status |-> "none", why |-> "", bytes |-> << >>, trees |-> << >>]

NoEncode == [status |-> "none", data |-> << >>, bytes |-> << >>, trees |-> << >>]

NoInput == [config |-> << >>, mode |-> "idle", window_index |-> 0,
            replica_id |-> 0, data |-> << >>]

CallInputs(configs, modes) ==
    UNION { [ config : {c}, mode : modes, window_index : WindowIndices,
              replica_id : ReplicaIds, data : DataInputs(num_leafs(c)) ] :
            c \in configs }

\* the state of the calls in `active` about to start with inputs `i`
\* the two Vec allocations of a call; 0 is a name that holds none
NoBuffers == [previous |-> 0, current |-> 0]

NoEvent ==
    [ kind |-> "none", stage |-> "none", layer |-> 0, src |-> 0, dst |-> 0,
      input |-> << >>, output |-> << >>, keys |-> << >>, root |-> 0 ]

\* a stage function returned Ok: it read allocation src, wrote allocation dst
StageEvent(stage, layer, src, dst, input, r) ==
    [ NoEvent EXCEPT !.kind = "stage", !.stage = stage, !.layer = layer,
                     !.src = src, !.dst = dst, !.input = input,
                     !.output = r.out,
                     !.keys = IF stage = "final" THEN r.keys ELSE << >> ]

Logged(p, e) == log' = [log EXCEPT ![p] = Append(@, e)]

PipelineInit(i, active) ==
    /\ inp = i
    /\ pc = [p \in Calls |-> IF p \in active THEN "start" ELSE "idle"]
    /\ phase = [p \in Calls |-> "none"]
    /\ layer_idx = [p \in Calls |-> 0]
    /\ previous_layer = [p \in Calls |-> << >>]
    /\ current_layer = [p \in Calls |-> << >>]
    /\ trees = [p \in Calls |-> << >>]
    /\ result = [p \in Calls |-> NoResult]
    /\ enc = [p \in Calls |-> NoEncode]
    /\ store = [key \in StoreKeys |-> << >>]
    /\ bufs = [p \in Calls |-> NoBuffers]
    /\ log = [p \in Calls |-> << >>]

PipelineIdle == PipelineInit([p \in Calls |-> NoInput], {})

IsEncode(p) == inp[p].mode = "encode"

\* a stage's Result used without the ?
StageNeverFails(r) == FALSE

\* the ? after a stage: an Err returns at once
StageFailed(r) == r.err # "none"

\* an error return: the locals are dropped and the caller gets the error only
Fail(p, why) ==
    /\ result' = [result EXCEPT ![p] = [NoResult EXCEPT !.status = "err", !.why = why]]
    /\ pc' = [pc EXCEPT ![p] = "done"]
    /\ previous_layer' = [previous_layer EXCEPT ![p] = << >>]
    /\ current_layer' = [current_layer EXCEPT ![p] = << >>]
    /\ trees' = [trees EXCEPT ![p] = << >>]
    /\ bufs' = [bufs EXCEPT ![p] = NoBuffers]
    /\ UNCHANGED log

\* encode_with_trees: get_merkle_tree_len succeeds, the two buffers are made
Start(p) ==
    /\ pc[p] = "start"
    /\ previous_layer' = [previous_layer EXCEPT ![p] = Zeros(inp[p].config.n)]
    /\ current_layer' = [current_layer EXCEPT ![p] = Zeros(inp[p].config.n)]
    /\ trees' = [trees EXCEPT ![p] = << >>]
    /\ bufs' = [bufs EXCEPT ![p] = [previous |-> 1, current |-> 2]]
    /\ pc' = [pc EXCEPT ![p] = "mask"]
    /\ UNCHANGED << inp, phase, layer_idx, result, enc, store, log, st, hp >>

\* encode_with_trees: get_merkle_tree_len returns an error
StartFail(p) ==
    /\ pc[p] = "start"
    /\ IsEncode(p)
    /\ Fail(p, "tree_len")
    /\ UNCHANGED << inp, phase, layer_idx, enc, store, st, hp >>

Mask(p) ==
    /\ pc[p] = "mask"
    /\ LET r == mask_layer(inp[p].config, inp[p].window_index, inp[p].replica_id,
                           previous_layer[p])
       IN IF StageFailed(r)
          THEN Fail(p, r.err) /\ UNCHANGED << phase, layer_idx >>
          ELSE /\ previous_layer' = [previous_layer EXCEPT ![p] = r.out]
               /\ phase' = [phase EXCEPT ![p] = "mask"]
               /\ layer_idx' = [layer_idx EXCEPT ![p] =
                                  IF IsEncode(p) THEN MASK_LAYER_INDEX ELSE 2]
               /\ pc' = [pc EXCEPT ![p] = IF IsEncode(p) THEN "persist" ELSE "expander"]
               /\ Logged(p, StageEvent("mask", MASK_LAYER_INDEX, 0,
                                       bufs[p].previous, << >>, r))
               /\ UNCHANGED << current_layer, trees, result, bufs >>
    /\ UNCHANGED << inp, enc, store, st, hp >>

\* every tree built from current_layer, the mask tree too
TreeInputCurrent(p) == current_layer[p]

\* every tree built from previous_layer, the loops' trees too
TreeInputPrevious(p) == previous_layer[p]

\* the buffer handed to lc_tree_from_slice after the stage `phase`
TreeInputName(p) == IF phase[p] = "mask" THEN "previous" ELSE "current"

TreeInput(p) ==
    IF TreeInputName(p) = "previous" THEN previous_layer[p] ELSE current_layer[p]

\* the allocation that buffer is
TreeInputBuffer(p) == bufs[p][TreeInputName(p)]

\* lc_tree_from_slice, first half: every node is converted to a domain element
\* (a failed conversion panics) and the leaves are put in the store
TreePersist(p) ==
    /\ pc[p] = "persist"
    /\ IF AllValid(TreeInput(p))
       THEN /\ store' = [store EXCEPT
                          ![StoreKey(layer_idx[p], inp[p].window_index)] = TreeInput(p)]
            /\ pc' = [pc EXCEPT ![p] = "build"]
            /\ Logged(p, [NoEvent EXCEPT !.kind = "tree", !.stage = phase[p],
                                         !.layer = layer_idx[p],
                                         !.src = TreeInputBuffer(p),
                                         !.input = TreeInput(p)])
            /\ UNCHANGED result
       ELSE /\ result' = [result EXCEPT ![p] = [NoResult EXCEPT !.status = "panic"]]
            /\ pc' = [pc EXCEPT ![p] = "done"]
            /\ UNCHANGED << store, log >>
    /\ UNCHANGED << inp, phase, layer_idx, previous_layer, current_layer, trees,
                    enc, bufs, st, hp >>

\* lc_tree_from_slice, second half: the tree is built over the stored leaves
TreeBuild(p) ==
    /\ pc[p] = "build"
    /\ LET key == StoreKey(layer_idx[p], inp[p].window_index)
       IN trees' = [trees EXCEPT ![p] =
                      Append(@, [key |-> key, layer |-> layer_idx[p],
                                 root |-> MerkleRoot(store[key])])]
    /\ pc' = [pc EXCEPT ![p] =
                CASE phase[p] = "mask" -> "expander"
                  [] phase[p] = "final" -> "return"
                  [] OTHER -> "swap"]
    /\ layer_idx' = [layer_idx EXCEPT ![p] = IF phase[p] = "mask" THEN 2 ELSE @]
    /\ Logged(p, [NoEvent EXCEPT !.kind = "built", !.stage = phase[p],
                                 !.layer = layer_idx[p],
                                 !.root = MerkleRoot(store[StoreKey(layer_idx[p],
                                                              inp[p].window_index)])])
    /\ UNCHANGED << inp, phase, previous_layer, current_layer, result, enc, store,
                    bufs, st, hp >>

\* lc_tree_from_slice returns an error of the tree builder
TreeFail(p) ==
    /\ pc[p] = "build"
    /\ Fail(p, "tree")
    /\ UNCHANGED << inp, phase, layer_idx, enc, store, st, hp >>

Expander(p) ==
    /\ pc[p] = "expander"
    /\ layer_idx[p] <= inp[p].config.num_expander_layers
    /\ LET r == expander_layer(inp[p].config, inp[p].window_index,
                               inp[p].replica_id, layer_idx[p],
                               previous_layer[p], current_layer[p])
       IN IF StageFailed(r)
          THEN Fail(p, r.err) /\ UNCHANGED phase
          ELSE /\ current_layer' = [current_layer EXCEPT ![p] = r.out]
               /\ phase' = [phase EXCEPT ![p] = "expander"]
               /\ pc' = [pc EXCEPT ![p] = IF IsEncode(p) THEN "persist" ELSE "swap"]
               /\ Logged(p, StageEvent("expander", layer_idx[p], bufs[p].previous,
                                       bufs[p].current, previous_layer[p], r))
               /\ UNCHANGED << previous_layer, trees, result, bufs >>
    /\ UNCHANGED << inp, layer_idx, enc, store, st, hp >>

\* the expander loop ends; the butterfly loop starts at 1 + num_expander_layers
ExpanderDone(p) ==
    /\ pc[p] = "expander"
    /\ layer_idx[p] > inp[p].config.num_expander_layers
    /\ pc' = [pc EXCEPT ![p] = "butterfly"]
    /\ layer_idx' = [layer_idx EXCEPT ![p] = 1 + inp[p].config.num_expander_layers]
    /\ UNCHANGED << inp, phase, previous_layer, current_layer, trees, result, enc,
                    store, bufs, log, st, hp >>

Butterfly(p) ==
    /\ pc[p] = "butterfly"
    /\ layer_idx[p] < num_layers(inp[p].config)
    /\ LET r == butterfly_layer(inp[p].config, inp[p].window_index,
                                inp[p].replica_id, layer_idx[p],
                                previous_layer[p], current_layer[p])
       IN IF StageFailed(r)
          THEN Fail(p, r.err) /\ UNCHANGED phase
          ELSE /\ current_layer' = [current_layer EXCEPT ![p] = r.out]
               /\ phase' = [phase EXCEPT ![p] = "butterfly"]
               /\ pc' = [pc EXCEPT ![p] = IF IsEncode(p) THEN "persist" ELSE "swap"]
               /\ Logged(p, StageEvent("butterfly", layer_idx[p], bufs[p].previous,
                                       bufs[p].current, previous_layer[p], r))
               /\ UNCHANGED << previous_layer, trees, result, bufs >>
    /\ UNCHANGED << inp, layer_idx, enc, store, st, hp >>

\* the butterfly loop ends; the last layer has index num_layers
ButterflyDone(p) ==
    /\ pc[p] = "butterfly"
    /\ layer_idx[p] >= num_layers(inp[p].config)
    /\ pc' = [pc EXCEPT ![p] = "final"]
    /\ layer_idx' = [layer_idx EXCEPT ![p] = num_layers(inp[p].config)]
    /\ UNCHANGED << inp, phase, previous_layer, current_layer, trees, result, enc,
                    store, bufs, log, st, hp >>

\* a loop body that ends without std::mem::swap
SwapOmitted(p) ==
    /\ pc[p] = "swap"
    /\ layer_idx' = [layer_idx EXCEPT ![p] = @ + 1]
    /\ pc' = [pc EXCEPT ![p] = phase[p]]
    /\ Logged(p, [NoEvent EXCEPT !.kind = "swap"])
    /\ UNCHANGED << inp, phase, previous_layer, current_layer, trees, result, enc,
                    store, bufs, st, hp >>

\* std::mem::swap at the end of a loop body, then the next layer_index
Swap(p) ==
    /\ pc[p] = "swap"
    /\ previous_layer' = [previous_layer EXCEPT ![p] = current_layer[p]]
    /\ current_layer' = [current_layer EXCEPT ![p] = previous_layer[p]]
    /\ layer_idx' = [layer_idx EXCEPT ![p] = @ + 1]
    /\ pc' = [pc EXCEPT ![p] = phase[p]]
    /\ bufs' = [bufs EXCEPT ![p] = [previous |-> @.current, current |-> @.previous]]
    /\ Logged(p, [NoEvent EXCEPT !.kind = "swap"])
    /\ UNCHANGED << inp, phase, trees, result, enc, store, st, hp >>

\* butterfly_encode_layer (then previous_layer is dropped) or butterfly_decode_layer
Final(p) ==
    /\ pc[p] = "final"
    /\ LET r == IF IsEncode(p)
                THEN butterfly_encode_layer(inp[p].config, inp[p].window_index,
                         inp[p].replica_id, layer_idx[p], previous_layer[p],
                         inp[p].data, current_layer[p])
                ELSE butterfly_decode_layer(inp[p].config, inp[p].window_index,
                         inp[p].replica_id, layer_idx[p], previous_layer[p],
                         inp[p].data, current_layer[p])
       IN IF StageFailed(r)
          THEN Fail(p, r.err) /\ UNCHANGED phase
          ELSE /\ current_layer' = [current_layer EXCEPT ![p] = r.out]
               /\ previous_layer' = [previous_layer EXCEPT ![p] =
                                       IF IsEncode(p) THEN << >> ELSE @]
               /\ phase' = [phase EXCEPT ![p] = "final"]
               /\ pc' = [pc EXCEPT ![p] = IF IsEncode(p) THEN "persist" ELSE "return"]
               /\ bufs' = [bufs EXCEPT ![p] =
                             IF IsEncode(p) THEN [@ EXCEPT !.previous = 0] ELSE @]
               /\ LET e == StageEvent("final", layer_idx[p], bufs[p].previous,
                                      bufs[p].current, previous_layer[p], r)
                  IN log' = [log EXCEPT ![p] =
                               IF IsEncode(p)
                               THEN @ \o << e, [NoEvent EXCEPT !.kind = "drop",
                                                              !.src = bufs[p].previous] >>
                               ELSE Append(@, e)]
               /\ UNCHANGED << trees, result >>
    /\ UNCHANGED << inp, layer_idx, enc, store, st, hp >>

\* Ok((current_layer, trees)) of encode_with_trees, Ok(current_layer) of decode
Return(p) ==
    /\ pc[p] = "return"
    /\ result' = [result EXCEPT ![p] =
                    [status |-> "ok", why |-> "", bytes |-> current_layer[p],
                     trees |-> trees[p]]]
    /\ pc' = [pc EXCEPT ![p] = "done"]
    /\ previous_layer' = [previous_layer EXCEPT ![p] = << >>]
    /\ current_layer' = [current_layer EXCEPT ![p] = << >>]
    /\ trees' = [trees EXCEPT ![p] = << >>]
    /\ bufs' = [bufs EXCEPT ![p] = NoBuffers]
    /\ UNCHANGED << inp, phase, layer_idx, enc, store, log, st, hp >>

\* tests::test_encode_decode_layer: the encoded output is decoded with the
\* same config, window index and replica id
RoundTrip(p) ==
    /\ pc[p] = "done"
    /\ IsEncode(p)
    /\ result[p].status = "ok"
    /\ enc' = [enc EXCEPT ![p] = [status |-> "ok", data |-> inp[p].data,
                                  bytes |-> result[p].bytes,
                                  trees |-> result[p].trees]]
    /\ inp' = [inp EXCEPT ![p] = [@ EXCEPT !.mode = "decode", !.data = result[p].bytes]]
    /\ result' = [result EXCEPT ![p] = NoResult]
    /\ pc' = [pc EXCEPT ![p] = "start"]
    /\ phase' = [phase EXCEPT ![p] = "none"]
    /\ layer_idx' = [layer_idx EXCEPT ![p] = 0]
    /\ log' = [log EXCEPT ![p] = << >>]
    /\ UNCHANGED << previous_layer, current_layer, trees, store, bufs, st, hp >>

Next ==
    \E p \in Calls :
        \/ Start(p)
        \/ StartFail(p)
        \/ Mask(p)
        \/ TreePersist(p)
        \/ TreeBuild(p)
        \/ TreeFail(p)
        \/ Expander(p)
        \/ ExpanderDone(p)
        \/ Butterfly(p)
        \/ ButterflyDone(p)
        \/ Swap(p)
        \/ Final(p)
        \/ Return(p)
        \/ RoundTrip(p)

\* one call, any config
Init ==
    /\ \E i \in CallInputs(Configs, {"encode", "decode"}) :
          PipelineInit([p \in Calls |-> IF p = "a" THEN i ELSE NoInput], {"a"})
    /\ StageIdle
    /\ PrefixInit

Spec == Init /\ [][Next]_vars

\* three encode_with_trees calls on one store, two of them with the same
\* inputs, in runs where get_merkle_tree_len and the tree builder succeed
ParConfigs ==
    [ k : {1}, n : {NODE_SIZE}, degree_expander : {2}, degree_butterfly : {2},
      num_expander_layers : {2}, num_butterfly_layers : {2} ]

ParInputs ==
    { i \in CallInputs(ParConfigs, {"encode"}) :
        BufLen(i.data) = i.config.n /\ AllValid(i.data) }

InitPar ==
    /\ \E i \in ParInputs, j \in ParInputs :
          PipelineInit([p \in Calls |-> IF p = "c" THEN j ELSE i], Calls)
    /\ StageIdle
    /\ PrefixInit

NextPar ==
    \E p \in Calls :
        \/ Start(p)
        \/ Mask(p)
        \/ TreePersist(p)
        \/ TreeBuild(p)
        \/ Expander(p)
        \/ ExpanderDone(p)
        \/ Butterfly(p)
        \/ ButterflyDone(p)
        \/ Swap(p)
        \/ Final(p)
        \/ Return(p)

SpecPar == InitPar /\ [][NextPar]_vars

\* two encode_with_trees calls, one after the other, with the same config,
\* window index and replica id and different data; the second call's output is
\* then decoded
PairInputs(configs) ==
    { i \in CallInputs(configs, {"encode"}) :
        BufLen(i.data) = i.config.n /\ AllValid(i.data) }

InitPair ==
    /\ \E i \in PairInputs(Configs), j \in PairInputs(Configs) :
          /\ i.config = j.config
          /\ i.window_index = j.window_index
          /\ i.replica_id = j.replica_id
          /\ i.data \in { Fill(num_leafs(i.config), 0),
                        Fill(num_leafs(i.config), Modulus - 1) }
          /\ j.data # i.data
          /\ PipelineInit([p \in Calls |-> CASE p = "a" -> i [] p = "b" -> j
                                             [] OTHER -> NoInput], {"a", "b"})
    /\ StageIdle
    /\ PrefixInit

\* the second call runs once the first has returned
Turn(p) == p = "a" \/ pc["a"] = "done"

NextPair ==
    \E p \in {"a", "b"} :
        \/ Turn(p) /\ Start(p)
        \/ Turn(p) /\ Mask(p)
        \/ Turn(p) /\ TreePersist(p)
        \/ Turn(p) /\ TreeBuild(p)
        \/ Turn(p) /\ Expander(p)
        \/ Turn(p) /\ ExpanderDone(p)
        \/ Turn(p) /\ Butterfly(p)
        \/ Turn(p) /\ ButterflyDone(p)
        \/ Turn(p) /\ Swap(p)
        \/ Turn(p) /\ Final(p)
        \/ Turn(p) /\ Return(p)
        \/ p = "b" /\ RoundTrip(p)

SpecPair == InitPair /\ [][NextPair]_vars

\* one call of one stage function, any arguments
InitStage == PipelineIdle /\ StageInit /\ PrefixInit

SpecStage == InitStage /\ [][StageNext]_vars

\* calls of hash_prefix
InitPrefix == PipelineIdle /\ StageIdle /\ PrefixInit

SpecPrefix == InitPrefix /\ [][CallHashPrefix]_vars

\* ------------------------------------------------------------------ claims
Done(p) == pc[p] = "done"

\* the layers as the stage table defines them, for a finished encode call
RECURSIVE LayerAt(_, _, _, _, _)
LayerAt(config, window_index, replica_id, data, l) ==
    IF l = 1
    THEN [i \in 1 .. num_leafs(config) |-> MaskNode(window_index, replica_id, i - 1)]
    ELSE LET below == LayerAt(config, window_index, replica_id, data, l - 1)
         IN IF l <= config.num_expander_layers
            THEN [i \in 1 .. num_leafs(config) |->
                    ExpanderNode(config, window_index, replica_id, l, below, i - 1)]
            ELSE IF l < num_layers(config)
            THEN [i \in 1 .. num_leafs(config) |->
                    ButterflyNode(config, window_index, replica_id, l, below, i - 1)]
            ELSE [i \in 1 .. num_leafs(config) |->
                    encode(ButterflyNode(config, window_index, replica_id, l, below,
                                         i - 1), data[i])]

\* C1: decoding the output of a successful encode_with_trees with the same
\* config, window index and replica id returns exactly the data, for data of
\* config.n bytes whose nodes are all valid domain elements.
C1_RoundTrip ==
    \A p \in Calls :
        ( /\ Done(p)
          /\ inp[p].mode = "decode"
          /\ enc[p].status = "ok"
          /\ BufLen(enc[p].data) = inp[p].config.n
          /\ AllValid(enc[p].data) )
        => /\ result[p].status = "ok"
           /\ result[p].bytes = enc[p].data

C1_Witness ==
    \E p \in Calls :
        /\ Done(p)
        /\ inp[p].mode = "decode"
        /\ enc[p].status = "ok"
        /\ BufLen(enc[p].data) = inp[p].config.n
        /\ AllValid(enc[p].data)
        /\ result[p].bytes = enc[p].data
        /\ enc[p].bytes # enc[p].data
        /\ Len(enc[p].data) >= 2

\* what C2 says of a finished, successful encode_with_trees call
TreesPerLayer(p) ==
    /\ Len(result[p].trees) = inp[p].config.num_expander_layers
                              + inp[p].config.num_butterfly_layers
    /\ \A i \in 1 .. Len(result[p].trees) :
          /\ result[p].trees[i].layer = i
          /\ result[p].trees[i].key = << i, inp[p].window_index >>
    /\ BufLen(result[p].bytes) = inp[p].config.n

EncodeOk(p) == Done(p) /\ inp[p].mode = "encode" /\ result[p].status = "ok"

\* C2 as stated: every successful encode_with_trees returns num_expander_layers
\* + num_butterfly_layers trees, the i-th for layer i under key (i, window_index),
\* and config.n encoded bytes.
C2_AnyConfig == \A p \in Calls : EncodeOk(p) => TreesPerLayer(p)

\* C2, amended: with at least one expander layer (the mask) and at least one
\* butterfly layer (the encoding layer), a successful encode_with_trees returns
\* num_expander_layers + num_butterfly_layers trees, the i-th built from layer i
\* (for data of config.n bytes: its root is the root over layer i of the stage
\* table) and stored under key (i, window_index), and config.n encoded bytes.
C2_TreesPerLayer ==
    \A p \in Calls :
        ( /\ EncodeOk(p)
          /\ inp[p].config.num_expander_layers >= 1
          /\ inp[p].config.num_butterfly_layers >= 1 )
        => /\ TreesPerLayer(p)
           /\ BufLen(inp[p].data) = inp[p].config.n =>
                 \A i \in 1 .. Len(result[p].trees) :
                    result[p].trees[i].root =
                       MerkleRoot(LayerAt(inp[p].config, inp[p].window_index,
                                          inp[p].replica_id, inp[p].data, i))

C2_Witness ==
    \E p \in Calls :
        /\ EncodeOk(p)
        /\ inp[p].config.num_expander_layers >= 2
        /\ inp[p].config.num_butterfly_layers >= 2
        /\ BufLen(inp[p].data) = inp[p].config.n
        /\ Len(result[p].trees) = num_layers(inp[p].config)
        /\ inp[p].window_index # 0

\* the buffers a stage function is given
GivenBuffers ==
    CASE st.fn = "mask_layer" -> { st.args.layer_out }
      [] st.fn \in {"expander_layer", "butterfly_layer"} ->
            { st.args.layer_in, st.args.layer_out }
      [] OTHER -> { st.args.layer_in, st.args.layer_out, st.args.data }

StageCalled ==
    st.fn \in {"mask_layer", "expander_layer", "butterfly_layer",
               "butterfly_encode_layer", "butterfly_decode_layer"}

Rejected == st.ret.err = "config" /\ st.ret.out = st.args.layer_out

\* C3: a stage given any buffer (layer_in, layer_out, data) whose length is not
\* config.n fails with a configuration error and writes no node of layer_out.
C3_BadLengthRejected ==
    ( /\ StageCalled
      /\ \E b \in GivenBuffers : BufLen(b) # st.args.config.n )
    => Rejected

\* the layer indices each stage accepts, as C4 states them
InExpanderRange(c, l) == 2 <= l /\ l <= c.num_expander_layers

InButterflyRange(c, l) ==
    c.num_expander_layers < l /\ l < c.num_expander_layers + c.num_butterfly_layers

IsFinalIndex(c, l) == l = c.num_expander_layers + c.num_butterfly_layers

StageSized ==
    /\ BufLen(st.args.layer_in) = st.args.config.n
    /\ BufLen(st.args.layer_out) = st.args.config.n

\* butterfly_encode_layer returns Ok for data one node short, the last node of
\* layer_out left as it was
C3_ShortDataAccepted ==
    /\ st.fn = "butterfly_encode_layer"
    /\ StageSized
    /\ FinalIndexOk(st.args.config, st.args.layer_index)
    /\ Len(st.args.layer_out) >= 2
    /\ BufLen(st.args.data) = st.args.config.n - NODE_SIZE
    /\ st.ret.err = "none"
    /\ st.ret.out[1] # st.args.layer_out[1]
    /\ st.ret.out[Len(st.ret.out)] = st.args.layer_out[Len(st.ret.out)]

\* a stage accepts exactly its range, and rejects any other index untouched
C4_AcceptsExactly ==
    LET c == st.args.config
        l == st.args.layer_index
    IN /\ st.fn = "expander_layer" =>
            /\ ~InExpanderRange(c, l) => Rejected
            /\ (InExpanderRange(c, l) /\ StageSized) => st.ret.err = "none"
       /\ st.fn = "butterfly_layer" =>
            /\ ~InButterflyRange(c, l) => Rejected
            /\ (InButterflyRange(c, l) /\ StageSized) => st.ret.err = "none"
       /\ st.fn \in {"butterfly_encode_layer", "butterfly_decode_layer"} =>
            /\ ~IsFinalIndex(c, l) => Rejected
            /\ (IsFinalIndex(c, l) /\ StageSized) => st.ret.err # "config"

\* no layer index of the call's config is accepted by two of the stages
C4_Disjoint ==
    LET c == st.args.config
    IN \A l \in Layers :
          /\ ~(InExpanderRange(c, l) /\ InButterflyRange(c, l))
          /\ ~(InExpanderRange(c, l) /\ IsFinalIndex(c, l))
          /\ ~(InButterflyRange(c, l) /\ IsFinalIndex(c, l))
          /\ ~(ExpanderIndexOk(c, l) /\ ButterflyIndexOk(c, l))
          /\ ~(ExpanderIndexOk(c, l) /\ FinalIndexOk(c, l))
          /\ ~(ButterflyIndexOk(c, l) /\ FinalIndexOk(c, l))

\* C4 as stated: expander_layer accepts exactly 2 <= layer_index <=
\* num_expander_layers, butterfly_layer exactly num_expander_layers < layer_index
\* < num_layers, the encode / decode layer exactly layer_index = num_layers;
\* outside its range a stage fails with a configuration error and leaves
\* layer_out unchanged; the three ranges are pairwise disjoint.
C4_AnyConfig == StageCalled => (C4_AcceptsExactly /\ C4_Disjoint)

\* C4, amended: as stated, the three ranges being pairwise disjoint when
\* num_butterfly_layers >= 1.
C4_LayerIndexRanges ==
    StageCalled =>
        /\ C4_AcceptsExactly
        /\ st.args.config.num_butterfly_layers >= 1 => C4_Disjoint

C4_Witness ==
    /\ st.fn = "expander_layer"
    /\ st.args.layer_index = 1
    /\ st.args.config.num_expander_layers >= 2
    /\ BufLen(st.args.layer_in) = st.args.config.n
    /\ BufLen(st.args.layer_out) = st.args.config.n
    /\ Rejected

\* C5: every node of every layer buffer, of the buffer handed to the tree
\* builder and of the returned bytes is a valid domain element, the nodes of the
\* mask, expander and butterfly layers being truncated hashes; the conversion
\* in lc_tree_from_slice never fails.
C5_NodesValid ==
    \A p \in Calls :
        /\ result[p].status # "panic"
        /\ AllValid(previous_layer[p])
        /\ AllValid(current_layer[p])
        /\ AllValid(result[p].bytes)
        /\ pc[p] \in {"persist", "build"} => AllValid(TreeInput(p))
        /\ (pc[p] \in {"persist", "build", "swap"} /\ phase[p] # "final")
              => \A i \in 1 .. Len(TreeInput(p)) : TreeInput(p)[i] < TruncSpace

C5_Witness ==
    \E p \in Calls :
        /\ pc[p] = "persist"
        /\ phase[p] = "final"
        /\ \E i \in 1 .. Len(current_layer[p]) : current_layer[p][i] >= TruncSpace
        /\ AllValid(current_layer[p])

\* C6: a failed stage or tree construction makes the call return an error with
\* neither bytes nor trees, nothing of the call runs afterwards, and a data
\* node that is no domain element is never coerced into a successful result.
C6_ErrorState ==
    \A p \in Calls :
        /\ result[p].status = "err" =>
              /\ Done(p)
              /\ result[p].bytes = << >>
              /\ result[p].trees = << >>
        /\ (Done(p) /\ result[p].status = "ok" /\ enc[p].status = "none") =>
              \A i \in 1 .. Min(Len(inp[p].data), num_leafs(inp[p].config)) :
                  ValidDomain(inp[p].data[i])

C6_NoPartialSuccess ==
    /\ []C6_ErrorState
    /\ [][\A p \in Calls :
            result[p].status = "err" =>
                /\ pc'[p] = pc[p]
                /\ result'[p] = result[p]
                /\ trees'[p] = trees[p]
                /\ previous_layer'[p] = previous_layer[p]
                /\ current_layer'[p] = current_layer[p]
                /\ store' = store]_vars

C6_Witness ==
    \E p \in Calls :
        /\ Done(p)
        /\ result[p].status = "err"
        /\ result[p].why = "conversion"
        /\ inp[p].mode = "encode"
        /\ Len(inp[p].data) >= 2
        /\ ValidDomain(inp[p].data[1])
        /\ ~ValidDomain(inp[p].data[2])

\* C7: a butterfly stage called with an odd degree_butterfly fails with a
\* configuration error and writes no node of layer_out.
C7_OddDegreeRejected ==
    ( /\ st.fn \in {"butterfly_layer", "butterfly_encode_layer",
                    "butterfly_decode_layer"}
      /\ st.args.config.degree_butterfly % 2 = 1 )
    => Rejected

\* butterfly_layer returns Ok for degree_butterfly = 3 and writes nodes whose
\* hash took two of the three parents
C7_ParentLeftOut ==
    /\ st.fn = "butterfly_layer"
    /\ st.args.config.degree_butterfly = 3
    /\ st.ret.err = "none"
    /\ st.ret.out # st.args.layer_out
    /\ Len(ButterflyParents(st.args.config, 0, st.args.layer_index)) = 3
    /\ Len(ButterflyHashedParents(st.args.config, 0, st.args.layer_index)) = 2

\* the encode_with_trees call of p, also once its output is being decoded
EncodeFinished(p) == EncodeOk(p) \/ enc[p].status = "ok"

EncodedBytes(p) == IF enc[p].status = "ok" THEN enc[p].bytes ELSE result[p].bytes

EncodedTrees(p) == IF enc[p].status = "ok" THEN enc[p].trees ELSE result[p].trees

OriginalData(p) == IF enc[p].status = "ok" THEN enc[p].data ELSE inp[p].data

SameInputs(p, q) ==
    /\ inp[p].config = inp[q].config
    /\ inp[p].window_index = inp[q].window_index
    /\ inp[p].replica_id = inp[q].replica_id
    /\ OriginalData(p) = OriginalData(q)

\* the trees of p's encode_with_trees call: returned, or pushed so far
TreesOf(p) == IF EncodeFinished(p) THEN EncodedTrees(p) ELSE trees[p]

\* C8: two encode_with_trees calls with identical inputs return the same
\* encoded bytes and the same tree roots (and agree on every tree built so
\* far), however they are interleaved with each other and with calls for other
\* window indices on the same store.
C8_Deterministic ==
    \A p, q \in Calls :
        ( /\ SameInputs(p, q)
          /\ \A r \in Calls :
                inp[r].window_index # inp[p].window_index \/ SameInputs(r, p) )
        => /\ \A i \in 1 .. Min(Len(TreesOf(p)), Len(TreesOf(q))) :
                 TreesOf(p)[i] = TreesOf(q)[i]
           /\ (EncodeFinished(p) /\ EncodeFinished(q)) =>
                 /\ EncodedBytes(p) = EncodedBytes(q)
                 /\ EncodedTrees(p) = EncodedTrees(q)

C8_Witness ==
    /\ EncodeOk("a") /\ EncodeOk("b") /\ EncodeOk("c")
    /\ inp["c"].window_index # inp["a"].window_index
    /\ result["a"].trees = result["b"].trees
    /\ result["a"].trees # result["c"].trees
    /\ result["a"].bytes = result["b"].bytes
    /\ Len(result["a"].trees) >= 3

\* C9: hash_prefix returns 32 bytes: layer, node_index and window_index as
\* big-endian 4-byte words at bytes 0-3, 4-7 and 8-11, then 20 zero bytes; so
\* hash_prefix(0,0,0) is all zero, hash_prefix(1,2,3) is
\* [0,0,0,1, 0,0,0,2, 0,0,0,3, 0 x 20], and distinct triples differ.
BigEndianAt(prefix, at, x) ==
    x = prefix[at + 1] * 16777216 + prefix[at + 2] * 65536
        + prefix[at + 3] * 256 + prefix[at + 4]

C9_PrefixLayout ==
    LET a == hp.last.args
        x == hp.last.prefix
    IN /\ Len(x) = 32
       /\ \A j \in 1 .. 32 : x[j] \in 0 .. 255
       /\ BigEndianAt(x, 0, a[1])
       /\ BigEndianAt(x, 4, a[2])
       /\ BigEndianAt(x, 8, a[3])
       /\ \A j \in 13 .. 32 : x[j] = 0
       /\ a = << 0, 0, 0 >> => x = [j \in 1 .. 32 |-> 0]
       /\ a = << 1, 2, 3 >> =>
             x = << 0, 0, 0, 1, 0, 0, 0, 2, 0, 0, 0, 3 >> \o [j \in 1 .. 20 |-> 0]
       /\ hp.last.args # hp.prev.args => hp.last.prefix # hp.prev.prefix

C9_Witness ==
    /\ hp.last.args = << 1, 2, 3 >>
    /\ hp.prev.args = << 16909060, 2147483647, 1 >>
    /\ hp.prev.prefix[1] = 1 /\ hp.prev.prefix[4] = 4 /\ hp.prev.prefix[5] = 127

\* C10: at the final layer, butterfly_decode_layer with the same config, window
\* index, replica id, layer index and layer_in returns exactly the data that
\* butterfly_encode_layer encoded, for layer_in of config.n bytes and data of
\* config.n bytes made of valid domain elements.
C10_LayerRoundTrip ==
    ( /\ st.fn = "encode_then_decode"
      /\ BufLen(st.args.layer_in) = st.args.config.n
      /\ BufLen(st.args.data) = st.args.config.n
      /\ AllValid(st.args.data) )
    => /\ st.back.err = "none"
       /\ st.back.out = st.args.data

C10_Witness ==
    /\ st.fn = "encode_then_decode"
    /\ BufLen(st.args.data) = st.args.config.n
    /\ AllValid(st.args.data)
    /\ Len(st.args.data) >= 2
    /\ st.back.out = st.args.data
    /\ st.ret.out # st.args.data

\* butterfly_layer returned Ok and wrote every node of a layer of config.n bytes
ButterflyLayerWritten ==
    /\ st.ret.err = "none"
    /\ BufLen(st.ret.out) = st.args.config.n
    /\ \A i \in 1 .. Len(st.ret.out) :
          /\ st.ret.out[i] < TruncSpace
          /\ st.ret.out[i] =
                ButterflyNode(st.args.config, st.args.window_index,
                              st.args.replica_id, st.args.layer_index,
                              st.args.layer_in, i - 1)

ButterflyCallSized ==
    /\ st.fn = "butterfly_layer"
    /\ StageSized
    /\ AllValid(st.args.layer_in)

\* C11 as stated: butterfly_layer succeeds and writes a full layer for every
\* layer index the test draws, num_expander_layers <= layer_index <
\* num_expander_layers + num_butterfly_layers.
C11_TestRange ==
    ( /\ ButterflyCallSized
      /\ st.args.config.num_expander_layers <= st.args.layer_index
      /\ st.args.layer_index < num_layers(st.args.config) )
    => ButterflyLayerWritten

\* the lowest index the test can draw, num_expander_layers, is refused as a
\* configuration error although the buffers are sized and valid
C11_FirstDrawRejected ==
    /\ ButterflyCallSized
    /\ st.args.config.num_butterfly_layers >= 1
    /\ st.args.layer_index = st.args.config.num_expander_layers
    /\ st.ret.err = "config"
    /\ st.ret.out = st.args.layer_out

\* ---------------------------------------------------- order of the layers
IsStage(e) == e.kind = "stage"

\* the stages a call has completed, in order
Stages(p) == SelectSeq(log[p], IsStage)

Active(p) == pc[p] # "idle"

\* the stage table: which stage computes layer l
StageOf(config, l) ==
    CASE l = MASK_LAYER_INDEX -> "mask"
      [] l > MASK_LAYER_INDEX /\ l <= config.num_expander_layers -> "expander"
      [] l > config.num_expander_layers /\ l < num_layers(config) -> "butterfly"
      [] OTHER -> "final"

\* the k-th stage of a call computes layer k, with the stage of the table, the
\* layer completed last is that layer of the table, and a call that returns Ok
\* has computed num_layers layers
IncreasingOnce(p) ==
    LET s == Stages(p)
    IN /\ \A k \in 1 .. Len(s) :
             /\ s[k].layer = k
             /\ k <= num_layers(inp[p].config)
             /\ s[k].stage = StageOf(inp[p].config, k)
       /\ (Len(s) >= 1 /\ Len(s) < num_layers(inp[p].config)) =>
             s[Len(s)].output = LayerAt(inp[p].config, inp[p].window_index,
                                        inp[p].replica_id, inp[p].data, Len(s))
       /\ (Done(p) /\ result[p].status = "ok") => Len(s) = num_layers(inp[p].config)

\* every stage after the first reads the whole output of the stage before it,
\* and after a swap previous_layer holds the layer completed last, as long as
\* the call has not returned
ReadsLayerBelow(p) ==
    LET s == Stages(p)
    IN /\ \A k \in 2 .. Len(s) :
             /\ s[k].input = s[k - 1].output
             /\ BufLen(s[k].input) = inp[p].config.n
       /\ ( /\ ~Done(p)
            /\ log[p] # << >>
            /\ log[p][Len(log[p])].kind = "swap" )
             => previous_layer[p] = s[Len(s)].output

\* C12 as stated: for every config, encode_with_trees and decode compute the
\* layers in the order 1, 2, ..., num_layers, each index once with the stage of
\* the table, and layer l reads the complete layer l-1 from previous_layer.
C12_AnyConfig ==
    \A p \in Calls : Active(p) => IncreasingOnce(p) /\ ReadsLayerBelow(p)

\* C12, amended: every layer reads the complete output of the layer before it
\* for every config, and for configs with num_expander_layers >= 1 and
\* num_butterfly_layers >= 1 the layers are computed in the order 1, 2, ...,
\* num_layers, each index exactly once, with the stage of the table.
C12_LayerOrder ==
    \A p \in Calls :
        Active(p) =>
          /\ ReadsLayerBelow(p)
          /\ ( /\ inp[p].config.num_expander_layers >= 1
               /\ inp[p].config.num_butterfly_layers >= 1 ) => IncreasingOnce(p)

\* a decode of an encode's output has computed mask, expander, butterfly and
\* final layer, with two swaps
C12_Witness ==
    \E p \in Calls :
        /\ Done(p)
        /\ inp[p].mode = "decode"
        /\ enc[p].status = "ok"
        /\ result[p].status = "ok"
        /\ inp[p].config.num_expander_layers = 2
        /\ inp[p].config.num_butterfly_layers = 2
        /\ Len(Stages(p)) = 4
        /\ Len(log[p]) = 6
        /\ Stages(p)[2].input # Stages(p)[3].input

\* ------------------------------------------------- trees and the buffers
\* event k is a tree build that reads the buffer the stage just before it
\* wrote (a drop of the other buffer may lie between), all of it and nothing
\* else, and the build is over before the next stage or swap
TreeOfLayerJustWritten(p, k) ==
    LET at == IF log[p][k - 1].kind = "drop" THEN k - 2 ELSE k - 1
    IN /\ k >= 2 /\ at >= 1
       /\ log[p][at].kind = "stage"
       /\ log[p][at].layer = log[p][k].layer
       /\ log[p][at].stage = log[p][k].stage
       /\ log[p][at].dst = log[p][k].src
       /\ log[p][k].src # 0
       /\ log[p][k].input = log[p][at].output
       /\ BufLen(log[p][k].input) = inp[p].config.n
       /\ k < Len(log[p]) =>
             /\ log[p][k + 1].kind = "built"
             /\ log[p][k + 1].layer = log[p][k].layer

\* a finished build follows its own reading of the buffer and is the tree of
\* what was read
BuiltAfterTree(p, k) ==
    /\ k >= 2
    /\ log[p][k - 1].kind = "tree"
    /\ log[p][k - 1].layer = log[p][k].layer
    /\ log[p][k].root = MerkleRoot(log[p][k - 1].input)

LiveBuffers(p) == { bufs[p].previous, bufs[p].current } \ {0}

\* the two names hold different allocations of config.n bytes each
TwoBuffers(p) ==
    /\ LiveBuffers(p) \subseteq {1, 2}
    /\ bufs[p].previous # 0 =>
          /\ bufs[p].previous # bufs[p].current
          /\ BufLen(previous_layer[p]) = inp[p].config.n
    /\ bufs[p].current # 0 => BufLen(current_layer[p]) = inp[p].config.n
    /\ bufs[p].previous = 0 => previous_layer[p] = << >>
    /\ bufs[p].current = 0 => current_layer[p] = << >>

\* C13: in encode_with_trees the tree of layer l is built from a buffer whose
\* whole contents are layer l, the build is over before that buffer is written
\* again and before the swap, the call holds at most two buffers of config.n
\* bytes, and no stage reads the buffer it writes.
C13_TreeBeforeReuse ==
    \A p \in Calls :
        Active(p) =>
          /\ TwoBuffers(p)
          /\ \A k \in 1 .. Len(log[p]) :
                /\ log[p][k].kind = "tree" => TreeOfLayerJustWritten(p, k)
                /\ log[p][k].kind = "built" => BuiltAfterTree(p, k)
                /\ log[p][k].kind = "stage" =>
                      /\ log[p][k].src # log[p][k].dst
                      /\ log[p][k].dst \in {1, 2}
                      /\ (IsEncode(p) /\ k < Len(log[p])) =>
                            log[p][k + 1].kind \in {"tree", "drop"}
                /\ log[p][k].kind = "swap" =>
                      k >= 2 /\ log[p][k - 1].kind = (IF IsEncode(p) THEN "built"
                                                                       ELSE "stage")

\* an encode_with_trees call has built a tree after each of its four layers,
\* swapped twice and dropped previous_layer before the last tree
C13_Witness ==
    \E p \in Calls :
        /\ EncodeOk(p)
        /\ inp[p].config.num_expander_layers = 2
        /\ inp[p].config.num_butterfly_layers = 2
        /\ inp[p].config.n = 2 * NODE_SIZE
        /\ Len(log[p]) = 15
        /\ log[p][3].kind = "built" /\ log[p][3].layer = 1
        /\ log[p][6].kind = "built" /\ log[p][6].layer = 2
        /\ log[p][7].kind = "swap"
        /\ log[p][13].kind = "drop"
        /\ log[p][15].kind = "built" /\ log[p][15].layer = 4

\* ------------------------------------------------ where the data enters
IsBuilt(e) == e.kind = "built"

Built(p) == SelectSeq(log[p], IsBuilt)

SameKeyInputs(p, q) ==
    /\ Active(p) /\ Active(q)
    /\ inp[p].config = inp[q].config
    /\ inp[p].window_index = inp[q].window_index
    /\ inp[p].replica_id = inp[q].replica_id

\* stage k of both calls is the same stage on the same layer_in; below the
\* final layer the outputs agree, in the final layer the keys do
SameUpToFinal(p, q) ==
    \A k \in 1 .. Min(Len(Stages(p)), Len(Stages(q))) :
        LET x == Stages(p)[k]
            y == Stages(q)[k]
        IN /\ x.stage = y.stage
           /\ x.layer = y.layer
           /\ x.input = y.input
           /\ x.stage # "final" => x.output = y.output
           /\ x.stage = "final" =>
                 /\ x.keys = y.keys
                 /\ Len(x.keys) = num_leafs(inp[p].config)

\* the trees below the final layer agree
SameTreesBelowFinal(p, q) ==
    \A k \in 1 .. Min(Len(Built(p)), Len(Built(q))) :
        LET x == Built(p)[k]
            y == Built(q)[k]
        IN /\ x.stage = y.stage
           /\ x.layer = y.layer
           /\ x.stage # "final" => x.root = y.root

\* C14: two runs (encode_with_trees or decode) with the same config, window
\* index and replica id compute the same layers and trees below the final
\* layer and the same keys in the final layer, whatever their data.
C14_DataOnlyInFinal ==
    \A p \in Calls, q \in Calls :
        SameKeyInputs(p, q) => SameUpToFinal(p, q) /\ SameTreesBelowFinal(p, q)

\* an encode and the decode of another encode's output, with different data
\* and different encodings, went through the same keys; the two encodes built
\* the same trees below the final layer and different final trees
C14_Witness ==
    /\ Done("a") /\ Done("b")
    /\ inp["a"].mode = "encode" /\ inp["b"].mode = "decode"
    /\ result["a"].status = "ok" /\ result["b"].status = "ok"
    /\ enc["b"].status = "ok"
    /\ SameKeyInputs("a", "b")
    /\ inp["a"].config.num_expander_layers = 2
    /\ inp["a"].config.num_butterfly_layers = 2
    /\ inp["a"].data # enc["b"].data
    /\ result["a"].bytes # enc["b"].bytes
    /\ Len(Stages("a")) = 4 /\ Len(Stages("b")) = 4
    /\ Stages("a")[4].keys = Stages("b")[4].keys
    /\ Stages("a")[4].output # Stages("b")[4].input
    /\ \A k \in 1 .. 3 : result["a"].trees[k].root = enc["b"].trees[k].root
    /\ result["a"].trees[4].root # enc["b"].trees[4].root

=============================================================================
